---------------------------- MODULE Spec2Model ----------------------------
(***************************************************************************)
(* Model of fix_image_media_type.py: magic-byte detection of image media   *)
(* types (detect_image_type), the base64 packager                          *)
(* (get_base64_with_correct_type) and the command line entry point (main). *)
(* Bytes are integers 0..255, byte strings are sequences of bytes, text    *)
(* strings printed or raised by the program are TLA+ strings.              *)
(***************************************************************************)
EXTENDS Integers, Sequences, FiniteSets, TLC

(***************************************************************************)
(* Bounds of the model.                                                    *)
(***************************************************************************)
\* how many bytes of a sample file may differ from the template it is cut from
MaxEdits == 1
\* longest file of the file-level specifications (the header window is 12)
MaxFileLen == 13
\* how many times an operation is called again in one behaviour
MaxCalls == 2
\* most positional arguments given to the command line
MaxArgs == 2

(***************************************************************************)
(* Program constants.                                                      *)
(***************************************************************************)
\* f.read(12)
HeaderLen == 12
\* len(sys.argv) != 2
ExpectedArgvLen == 2

\* Python's None (returned by detect_image_type when nothing was detected)
None == "None"

Min(a, b) == IF a < b THEN a ELSE b

\* Python's s[lo:hi] for 0 <= lo <= hi: clamps to the length, never raises
Slice(s, lo, hi) == SubSeq(s, lo + 1, Min(hi, Len(s)))

(***************************************************************************)
(* The signatures compared by detect_image_type.                           *)
(***************************************************************************)
PNG_SIG == <<137, 80, 78, 71, 13, 10, 26, 10>>
JPEG_SIG == <<255, 216, 255>>
RIFF_SIG == <<82, 73, 70, 70>>
WEBP_SIG == <<87, 69, 66, 80>>
GIF87a_SIG == <<71, 73, 70, 56, 55, 97>>
GIF89a_SIG == <<71, 73, 70, 56, 57, 97>>
BMP_SIG == <<66, 77>>
ICO_SIG == <<0, 0, 1, 0>>
TIFF_II_SIG == <<73, 73>>
TIFF_MM_SIG == <<77, 77>>

\* the conditions of the seven if statements, one operator each
\* a prefix test written the wrong way round: the signature starts with the header
IsPNG_Prefix(header) == header = SubSeq(PNG_SIG, 1, Min(Len(header), 8))

IsPNG(header) == Slice(header, 0, 8) = PNG_SIG

IsJPEG_TwoBytes(header) == Slice(header, 0, 2) = SubSeq(JPEG_SIG, 1, 2)

IsJPEG(header) == Slice(header, 0, 3) = JPEG_SIG

IsWEBP_RiffOnly(header) == Slice(header, 0, 4) = RIFF_SIG

IsWEBP(header) == Slice(header, 0, 4) = RIFF_SIG /\ Slice(header, 8, 12) = WEBP_SIG

IsGIF_Only89a(header) == Slice(header, 0, 6) = GIF89a_SIG

IsGIF(header) == Slice(header, 0, 6) \in {GIF87a_SIG, GIF89a_SIG}

IsBMP(header) == Slice(header, 0, 2) = BMP_SIG

IsICO(header) == Slice(header, 0, 4) = ICO_SIG

IsTIFF_Typo(header) == Slice(header, 0, 2) \in {TIFF_II_SIG, BMP_SIG}

IsTIFF(header) == Slice(header, 0, 2) \in {TIFF_II_SIG, TIFF_MM_SIG}

\* lines 35-66: the body of detect_image_type once the header is read
classify(header) ==
    IF Len(header) = 0 THEN None
    ELSE IF IsPNG(header) THEN "image/png"
    ELSE IF IsJPEG(header) THEN "image/jpeg"
    ELSE IF IsWEBP(header) THEN "image/webp"
    ELSE IF IsGIF(header) THEN "image/gif"
    ELSE IF IsBMP(header) THEN "image/bmp"
    ELSE IF IsICO(header) THEN "image/x-icon"
    ELSE IF IsTIFF(header) THEN "image/tiff"
    ELSE None

(***************************************************************************)
(* The file system: two paths of one directory, differing in extension.    *)
(* A path is missing, unreadable (permission denied, a directory) or ok.   *)
(***************************************************************************)
Paths == {"img.png", "img.webp"}

Missing == [kind |-> "missing", data |-> <<>>]

\* open(file_path, 'rb') succeeds
CanOpen(fsys, file_path) == fsys[file_path].kind = "ok"

\* the exception open() raises otherwise
OpenError(fsys, file_path) ==
    IF fsys[file_path].kind = "missing" THEN "FileNotFoundError" ELSE "PermissionError"

\* Path(file_path).exists()
Exists(fsys, file_path) == fsys[file_path].kind # "missing"

\* f.read(12)
ReadHeader(fsys, file_path) == Slice(fsys[file_path].data, 0, HeaderLen)

ReadAll_Window(fsys, file_path) == Slice(fsys[file_path].data, 0, HeaderLen)

\* f.read()
ReadAll(fsys, file_path) == fsys[file_path].data

\* a detection that trusts the extension of the path
detect_by_extension(fsys, file_path) ==
    IF ~CanOpen(fsys, file_path)
    THEN [value |-> None, err |-> <<"Error reading file">>, read |-> FALSE, header |-> <<>>]
    ELSE [value |-> IF file_path = "img.webp" THEN "image/webp"
                    ELSE classify(ReadHeader(fsys, file_path)),
          err |-> <<>>, read |-> TRUE, header |-> ReadHeader(fsys, file_path)]

\* detect_image_type: its return value, what it prints on standard error,
\* and (for the properties) whether the read succeeded and what it read
detect_image_type(fsys, file_path) ==
    IF ~CanOpen(fsys, file_path)
    THEN [value |-> None, err |-> <<"Error reading file">>, read |-> FALSE, header |-> <<>>]
    ELSE [value |-> classify(ReadHeader(fsys, file_path)),
          err |-> <<>>, read |-> TRUE, header |-> ReadHeader(fsys, file_path)]

\* Python truthiness of an Optional[str]: None and "" are false
Falsy(v) == v = None \/ v = ""

\* raise ValueError(f"Could not detect image type for {file_path}")
DetectionError(file_path) == "ValueError: Could not detect image type for " \o file_path

(***************************************************************************)
(* base64.b64encode(image_data).decode('utf-8'): text as code points.      *)
(***************************************************************************)
\* the character of a 6-bit value in the standard alphabet A-Z a-z 0-9 + /
B64Char(v) ==
    IF v < 26 THEN 65 + v
    ELSE IF v < 52 THEN 71 + v
    ELSE IF v < 62 THEN v - 4
    ELSE IF v = 62 THEN 43
    ELSE 47

RECURSIVE b64encode(_)
b64encode(s) ==
    IF Len(s) = 0 THEN <<>>
    ELSE IF Len(s) = 1
    THEN <<B64Char(s[1] \div 4), B64Char((s[1] % 4) * 16), 61, 61>>
    ELSE IF Len(s) = 2
    THEN <<B64Char(s[1] \div 4),
           B64Char((s[1] % 4) * 16 + s[2] \div 16),
           B64Char((s[2] % 16) * 4), 61>>
    ELSE <<B64Char(s[1] \div 4),
           B64Char((s[1] % 4) * 16 + s[2] \div 16),
           B64Char((s[2] % 16) * 4 + s[3] \div 64),
           B64Char(s[3] % 64)>> \o b64encode(SubSeq(s, 4, Len(s)))

\* bytes.decode('utf-8') of ASCII bytes: one code point per byte below 128
utf8_decode(bs) == [i \in 1..Len(bs) |-> IF bs[i] < 128 THEN bs[i] ELSE 65533]

(***************************************************************************)
(* Sample files: 12-byte templates (a signature and what the test files    *)
(* put after it), cut to a length and changed in a bounded number of bytes.*)
(***************************************************************************)
Templates ==
    { PNG_SIG \o <<0, 0, 0, 13>>,
      JPEG_SIG \o <<224, 0, 16, 74, 70, 73, 70, 0, 1>>,
      RIFF_SIG \o <<36, 0, 0, 0>> \o WEBP_SIG,
      RIFF_SIG \o <<36, 0, 0, 0>> \o <<87, 65, 86, 69>>,
      GIF87a_SIG \o <<1, 0, 1, 0, 128, 0>>,
      GIF89a_SIG \o <<1, 0, 1, 0, 128, 0>>,
      BMP_SIG \o <<70, 0, 0, 0, 0, 0, 0, 0, 54, 0>>,
      ICO_SIG \o <<1, 0, 16, 16, 0, 0, 1, 0>>,
      TIFF_II_SIG \o <<42, 0, 8, 0, 0, 0, 1, 0, 0, 1>>,
      TIFF_MM_SIG \o <<0, 42, 0, 0, 0, 8, 0, 1, 1, 0>>,
      <<171, 205, 239, 171, 205, 239, 171, 205, 239, 171, 205, 239>> }

\* the bytes any rule compares position i with, and one byte none compares
Alphabet(i) == {t[i] : t \in Templates} \cup {171}

AllBytes == UNION {Alphabet(i) : i \in 1..HeaderLen}

EditSets == {P \in SUBSET (1..HeaderLen) : Cardinality(P) <= MaxEdits}

Edits(P) == {f \in [P -> AllBytes] : \A i \in P : f[i] \in Alphabet(i)}

\* a template cut, or continued with filler bytes, to n bytes
Sized(t, n) == [i \in 1..n |-> IF i <= HeaderLen THEN t[i] ELSE 171]

\* template t with the bytes at the positions of f replaced, cut or continued
\* to n bytes
Edited(t, f, n) == [i \in 1..n |-> IF i \in DOMAIN f THEN f[i] ELSE Sized(t, n)[i]]

Samples == {Sized(t, n) : t \in Templates, n \in 0..MaxFileLen}

ArgLists == UNION {[1..n -> Paths] : n \in 0..MaxArgs}

(***************************************************************************)
(* State.                                                                  *)
(***************************************************************************)
VARIABLES
    fs,           \* the file system: path -> [kind, data]
    op,           \* the entry point called: "detect", "get_base64" or "main"
    args,         \* its arguments (sys.argv[1:] for main, <<file_path>> otherwise)
    pc,           \* where the call is
    ret,          \* the value detect_image_type returned to its caller
    header,       \* the header the last detect_image_type read
    readOk,       \* whether that read succeeded
    media_type,   \* local of get_base64_with_correct_type and of main
    image_data,   \* local of get_base64_with_correct_type
    base64_data,  \* local of get_base64_with_correct_type
    returned,     \* get_base64_with_correct_type returned (media_type, base64_data)
    raised,       \* the exception that left the call, "" if none
    stdout,       \* lines printed on standard output
    stderr,       \* lines printed on standard error
    exit_code,    \* <<>> while running, <<code>> once the process has ended
    calls,        \* calls made before this one
    seen          \* <<header, value>> of every successful read so far

vars == <<fs, op, args, pc, ret, header, readOk, media_type, image_data, base64_data,
          returned, raised, stdout, stderr, exit_code, calls, seen>>

file_path == args[1]

\* the locals and outputs of a call that has not started
Fresh ==
    /\ pc = "start"
    /\ ret = None
    /\ header = <<>>
    /\ readOk = FALSE
    /\ media_type = None
    /\ image_data = <<>>
    /\ base64_data = <<>>
    /\ returned = FALSE
    /\ raised = ""
    /\ stdout = <<>>
    /\ stderr = <<>>
    /\ exit_code = <<>>

\* one file, at one of the two paths, readable or not
OneFile(p, kind, data) == [q \in Paths |-> IF q = p THEN [kind |-> kind, data |-> data] ELSE Missing]

Init ==
    /\ \E p \in Paths, kind \in {"ok", "unreadable"}, d \in Samples :
           fs = OneFile(p, kind, d)
    /\ op \in {"detect", "get_base64", "main"}
    /\ args \in ArgLists
    /\ op # "main" => Len(args) = 1
    /\ Fresh
    /\ calls = 0
    /\ seen = {}

(***************************************************************************)
(* detect_image_type called directly (the library surface, the tests).     *)
(***************************************************************************)
Remember(r) == IF r.read THEN seen \cup {<<r.header, r.value>>} ELSE seen

CallDetect ==
    /\ op = "detect" /\ pc = "start"
    /\ LET r == detect_image_type(fs, file_path) IN
           /\ ret' = r.value
           /\ header' = r.header
           /\ readOk' = r.read
           /\ stderr' = stderr \o r.err
           /\ seen' = Remember(r)
    /\ pc' = "done"
    /\ UNCHANGED <<fs, op, args, media_type, image_data, base64_data, returned, raised,
                   stdout, exit_code, calls>>

(***************************************************************************)
(* get_base64_with_correct_type: the detection, then the full read.        *)
(***************************************************************************)
GetBase64_Detect ==
    /\ op = "get_base64" /\ pc = "start"
    /\ LET r == detect_image_type(fs, file_path) IN
           /\ media_type' = r.value
           /\ header' = r.header
           /\ readOk' = r.read
           /\ stderr' = stderr \o r.err
           /\ seen' = Remember(r)
           /\ IF Falsy(r.value)
              THEN raised' = DetectionError(file_path) /\ pc' = "done"
              ELSE raised' = raised /\ pc' = "read"
    /\ UNCHANGED <<fs, op, args, ret, image_data, base64_data, returned, stdout,
                   exit_code, calls>>

GetBase64_Read ==
    /\ op = "get_base64" /\ pc = "read"
    /\ IF CanOpen(fs, file_path)
       THEN /\ image_data' = ReadAll(fs, file_path)
            /\ base64_data' = utf8_decode(b64encode(ReadAll(fs, file_path)))
            /\ returned' = TRUE
            /\ raised' = raised
       ELSE /\ raised' = OpenError(fs, file_path)
            /\ UNCHANGED <<image_data, base64_data, returned>>
    /\ pc' = "done"
    /\ UNCHANGED <<fs, op, args, ret, header, readOk, media_type, stdout, stderr,
                   exit_code, calls, seen>>

(***************************************************************************)
(* main: the argument count, the existence check, the detection.           *)
(***************************************************************************)
Main_Args ==
    /\ op = "main" /\ pc = "start"
    /\ IF Len(args) + 1 # ExpectedArgvLen
       THEN /\ stdout' = stdout \o <<"Usage: python fix_image_media_type.py <image_file>",
                                     "Detects the actual image format by reading file headers.">>
            /\ exit_code' = <<1>>
            /\ pc' = "done"
       ELSE /\ pc' = "exists"
            /\ UNCHANGED <<stdout, exit_code>>
    /\ UNCHANGED <<fs, op, args, ret, header, readOk, media_type, image_data, base64_data,
                   returned, raised, stderr, calls, seen>>

Main_Exists ==
    /\ op = "main" /\ pc = "exists"
    /\ IF ~Exists(fs, file_path)
       THEN /\ stderr' = stderr \o <<"Error: File not found: " \o file_path>>
            /\ exit_code' = <<1>>
            /\ pc' = "done"
       ELSE /\ pc' = "detect"
            /\ UNCHANGED <<stderr, exit_code>>
    /\ UNCHANGED <<fs, op, args, ret, header, readOk, media_type, image_data, base64_data,
                   returned, raised, stdout, calls, seen>>

Main_Detect_NoExit ==
    /\ op = "main" /\ pc = "detect"
    /\ LET r == detect_image_type(fs, file_path) IN
           /\ media_type' = r.value
           /\ header' = r.header
           /\ readOk' = r.read
           /\ seen' = Remember(r)
           /\ IF ~Falsy(r.value)
              THEN /\ stdout' = stdout \o <<r.value>>
                   /\ stderr' = stderr \o r.err
              ELSE /\ stderr' = stderr \o r.err \o <<"Error: Could not detect image type">>
                   /\ stdout' = stdout
           /\ exit_code' = <<0>>
    /\ pc' = "done"
    /\ UNCHANGED <<fs, op, args, ret, image_data, base64_data, returned, raised, calls>>

Main_Detect ==
    /\ op = "main" /\ pc = "detect"
    /\ LET r == detect_image_type(fs, file_path) IN
           /\ media_type' = r.value
           /\ header' = r.header
           /\ readOk' = r.read
           /\ seen' = Remember(r)
           /\ IF ~Falsy(r.value)
              THEN /\ stdout' = stdout \o <<r.value>>
                   /\ stderr' = stderr \o r.err
                   /\ exit_code' = <<0>>
              ELSE /\ stderr' = stderr \o r.err \o <<"Error: Could not detect image type">>
                   /\ stdout' = stdout
                   /\ exit_code' = <<1>>
    /\ pc' = "done"
    /\ UNCHANGED <<fs, op, args, ret, image_data, base64_data, returned, raised, calls>>

(***************************************************************************)
(* Between calls: the same call is made again, or the file is renamed to   *)
(* the other extension and the call is made on the new path (the test's    *)
(* "PNG file named .webp").                                                *)
(***************************************************************************)
\* the next call starts with fresh locals and fresh output streams
Reset ==
    /\ pc' = "start"
    /\ ret' = None
    /\ header' = <<>>
    /\ readOk' = FALSE
    /\ media_type' = None
    /\ image_data' = <<>>
    /\ base64_data' = <<>>
    /\ returned' = FALSE
    /\ raised' = ""
    /\ stdout' = <<>>
    /\ stderr' = <<>>
    /\ exit_code' = <<>>

CallAgain ==
    /\ pc = "done" /\ calls < MaxCalls
    /\ calls' = calls + 1
    /\ Reset
    /\ UNCHANGED <<fs, op, args, seen>>

Rename ==
    /\ pc = "done" /\ calls < MaxCalls /\ Len(args) = 1
    /\ \E src \in Paths, dst \in Paths :
           /\ src = file_path /\ dst # src
           /\ Exists(fs, src) /\ ~Exists(fs, dst)
           /\ fs' = [fs EXCEPT ![dst] = fs[src], ![src] = Missing]
           /\ args' = <<dst>>
    /\ calls' = calls + 1
    /\ Reset
    /\ UNCHANGED <<op, seen>>

(***************************************************************************)
(* Another process, between the header read and the full read of           *)
(* get_base64_with_correct_type: it rewrites, truncates or removes a file. *)
(***************************************************************************)
\* what the other process leaves in the file: another image, or a prefix of it
Rewrites(data) ==
    {Sized(t, HeaderLen) : t \in Templates} \cup {SubSeq(data, 1, n) : n \in 0..Len(data)}

Interfere ==
    /\ op = "get_base64" /\ pc = "read"
    /\ \E f \in {Missing} \cup [kind : {"ok"}, data : Rewrites(fs[file_path].data)] :
           /\ f # fs[file_path]
           /\ fs' = [fs EXCEPT ![file_path] = f]
    /\ UNCHANGED <<op, args, pc, ret, header, readOk, media_type, image_data, base64_data,
                   returned, raised, stdout, stderr, exit_code, calls, seen>>

(***************************************************************************)
(* Specifications.                                                         *)
(***************************************************************************)
\* the program alone: calls of the three entry points, one after the other
Next ==
    \/ CallDetect
    \/ GetBase64_Detect
    \/ GetBase64_Read
    \/ Main_Args
    \/ Main_Exists
    \/ Main_Detect
    \/ CallAgain
    \/ Rename

Spec == Init /\ [][Next]_vars

\* the classification alone: every template with at most MaxEdits of its bytes
\* replaced, cut or continued to 0..MaxFileLen bytes
InitClassify ==
    /\ \E p \in Paths, t \in Templates, n \in 0..MaxFileLen, P \in EditSets :
           \E f \in Edits(P) : fs = OneFile(p, "ok", Edited(t, f, n)) /\ args = <<p>>
    /\ op = "detect"
    /\ Fresh
    /\ calls = 0
    /\ seen = {}

NextClassify == CallDetect

SpecClassify == InitClassify /\ [][NextClassify]_vars

\* get_base64_with_correct_type with another process writing the files
InitRace ==
    /\ \E p \in Paths, d \in Samples : fs = OneFile(p, "ok", d) /\ args = <<p>>
    /\ op = "get_base64"
    /\ Fresh
    /\ calls = 0
    /\ seen = {}

NextRace ==
    \/ GetBase64_Detect
    \/ GetBase64_Read
    \/ Interfere

SpecRace == InitRace /\ [][NextRace]_vars

(***************************************************************************)
(* The rule table of the specification, by byte offsets, for the claims.   *)
(***************************************************************************)
RuleOrder == <<"PNG", "JPEG", "WEBP", "GIF", "BMP", "ICO", "TIFF">>

RuleNames == {RuleOrder[i] : i \in DOMAIN RuleOrder}

MediaTypeOf(r) ==
    CASE r = "PNG" -> "image/png"
      [] r = "JPEG" -> "image/jpeg"
      [] r = "WEBP" -> "image/webp"
      [] r = "GIF" -> "image/gif"
      [] r = "BMP" -> "image/bmp"
      [] r = "ICO" -> "image/x-icon"
      [] r = "TIFF" -> "image/tiff"

MediaTypes == {MediaTypeOf(r) : r \in RuleNames}

\* the bytes of h at offsets off .. off+Len(sig)-1 exist and are sig
At(h, off, sig) == Len(h) >= off + Len(sig) /\ \A i \in 1..Len(sig) : h[off + i] = sig[i]

TableMatches(r, h) ==
    CASE r = "PNG" -> At(h, 0, PNG_SIG)
      [] r = "JPEG" -> At(h, 0, JPEG_SIG)
      [] r = "WEBP" -> At(h, 0, RIFF_SIG) /\ At(h, 8, WEBP_SIG)
      [] r = "GIF" -> At(h, 0, GIF87a_SIG) \/ At(h, 0, GIF89a_SIG)
      [] r = "BMP" -> At(h, 0, BMP_SIG)
      [] r = "ICO" -> At(h, 0, ICO_SIG)
      [] r = "TIFF" -> At(h, 0, TIFF_II_SIG) \/ At(h, 0, TIFF_MM_SIG)

\* the number of leading bytes a rule needs
RequiredLen(r) ==
    CASE r = "PNG" -> Len(PNG_SIG)
      [] r = "JPEG" -> Len(JPEG_SIG)
      [] r = "WEBP" -> 8 + Len(WEBP_SIG)
      [] r = "GIF" -> Len(GIF89a_SIG)
      [] r = "BMP" -> Len(BMP_SIG)
      [] r = "ICO" -> Len(ICO_SIG)
      [] r = "TIFF" -> Len(TIFF_II_SIG)

\* the first rule of an order that the table matches, None if there is none
FirstTableMatch(order, h) ==
    LET hits == {i \in DOMAIN order : TableMatches(order[i], h)} IN
    IF hits = {} THEN None
    ELSE MediaTypeOf(order[CHOOSE i \in hits : \A j \in hits : i <= j])

\* the condition the code tests for a rule
CodeMatches(r, h) ==
    CASE r = "PNG" -> IsPNG(h)
      [] r = "JPEG" -> IsJPEG(h)
      [] r = "WEBP" -> IsWEBP(h)
      [] r = "GIF" -> IsGIF(h)
      [] r = "BMP" -> IsBMP(h)
      [] r = "ICO" -> IsICO(h)
      [] r = "TIFF" -> IsTIFF(h)

Matched(h) == {r \in RuleNames : CodeMatches(r, h)}

\* the first 12 bytes of the file the call was made on
Window == Slice(fs[file_path].data, 0, HeaderLen)

\* C1: for every header window of 0 to 12 bytes, the classification is the
\* media type of the first rule of the table, in the order PNG, JPEG, WEBP,
\* GIF, BMP, ICO, TIFF, that matches, and it is None exactly when none of the
\* seven rules matches.
C1_FirstMatchInPriorityOrder ==
    pc = "done" =>
        /\ Len(header) <= HeaderLen
        /\ header = Window
        /\ ret = FirstTableMatch(RuleOrder, header)
        /\ (ret = None <=> \A r \in RuleNames : ~TableMatches(r, header))

C1_Witness ==
    /\ pc = "done"
    /\ header = TIFF_MM_SIG
    /\ ret = "image/tiff"

\* C2: a file whose leading bytes are the full signature of a format,
\* whatever bytes follow, classifies to the media type of that format; the
\* two-byte file BM alone is image/bmp.
C2_FullSignatureClassifies ==
    pc = "done" =>
        /\ At(fs[file_path].data, 0, PNG_SIG) => ret = "image/png"
        /\ At(fs[file_path].data, 0, JPEG_SIG) => ret = "image/jpeg"
        /\ At(fs[file_path].data, 0, RIFF_SIG) /\ At(fs[file_path].data, 8, WEBP_SIG)
               => ret = "image/webp"
        /\ At(fs[file_path].data, 0, GIF87a_SIG) => ret = "image/gif"
        /\ At(fs[file_path].data, 0, GIF89a_SIG) => ret = "image/gif"
        /\ At(fs[file_path].data, 0, BMP_SIG) => ret = "image/bmp"
        /\ At(fs[file_path].data, 0, ICO_SIG) => ret = "image/x-icon"
        /\ At(fs[file_path].data, 0, TIFF_II_SIG) => ret = "image/tiff"
        /\ At(fs[file_path].data, 0, TIFF_MM_SIG) => ret = "image/tiff"
        /\ fs[file_path].data = BMP_SIG => ret = "image/bmp"

C2_Witness ==
    /\ pc = "done"
    /\ Len(fs[file_path].data) > HeaderLen
    /\ At(fs[file_path].data, 0, GIF87a_SIG)
    /\ fs[file_path].data[7] = 171
    /\ ret = "image/gif"

\* C4: a rule never matches a header shorter than the bytes it needs, and a
\* short header raises nothing; the empty header and every proper prefix of
\* the PNG signature classify as None.
C4_ShortHeaderNeverMatches ==
    pc = "done" =>
        /\ \A r \in RuleNames :
               Len(header) < RequiredLen(r) =>
                   ~CodeMatches(r, header) /\ ret # MediaTypeOf(r)
        /\ readOk /\ raised = "" /\ stderr = <<>>
        /\ header = <<>> => ret = None
        /\ (\E n \in 0..(Len(PNG_SIG) - 1) : header = SubSeq(PNG_SIG, 1, n)) => ret = None

C4_Witness ==
    /\ pc = "done"
    /\ header = SubSeq(PNG_SIG, 1, 4)
    /\ ret = None

\* C5: a header that starts with RIFF and whose bytes 8..11 are not WEBP
\* (RIFF....WAVE, or a RIFF header shorter than 12 bytes) is never image/webp:
\* it classifies as None.
C5_RiffNotWebpIsUnknown ==
    pc = "done" /\ At(header, 0, RIFF_SIG) /\ ~At(header, 8, WEBP_SIG) =>
        ret # "image/webp" /\ ret = None

C5_Witness ==
    /\ pc = "done"
    /\ header = RIFF_SIG \o <<36, 0, 0, 0, 87, 65, 86, 69>>
    /\ ret = None

\* C9: the rules do not conflict: at most one of the seven conditions holds
\* of any header, so whichever matching rule an evaluation order meets first,
\* the classification is the one returned.
C9_NoRuleConflict ==
    pc = "done" =>
        /\ Cardinality(Matched(header)) <= 1
        /\ \A r \in Matched(header) : ret = MediaTypeOf(r)
        /\ Matched(header) = {} => ret = None

C9_Witness ==
    /\ pc = "done"
    /\ Matched(header) = {"BMP"}
    /\ Len(header) = HeaderLen
    /\ ret = "image/bmp"

\* C3: the classification is a function of the first 12 bytes that were
\* read, and of nothing else: every successful read so far of the same 12
\* bytes, whatever the path, the size of the file or the number of earlier
\* calls, returned the same value, and so would a read of any other file,
\* under either extension, that starts with the same 12 bytes.
C3_FunctionOfHeaderWindow ==
    /\ \A x \in seen, y \in seen : x[1] = y[1] => x[2] = y[2]
    /\ (pc = "done" /\ op = "detect" /\ readOk) =>
           /\ <<header, ret>> \in seen
           /\ \A p \in Paths, d \in Samples :
                  Slice(d, 0, HeaderLen) = header =>
                      detect_image_type(OneFile(p, "ok", d), p).value = ret

C3_Witness ==
    /\ pc = "done" /\ op = "detect" /\ readOk
    /\ calls > 0
    /\ file_path = "img.webp"
    /\ Len(fs[file_path].data) > HeaderLen
    /\ At(header, 0, PNG_SIG)
    /\ ret = "image/png"

\* a readable file that matches no rule
NoMatchFile(p) == OneFile(p, "ok", <<171, 205, 239>>)

\* C6: a failed read gives the caller something else than a file that was
\* read and matched no rule does: detect_image_type returns another value,
\* and get_base64_with_correct_type raises another error.
C6_ReadFailureDistinctFromUnknown ==
    /\ (pc = "done" /\ op = "detect" /\ ~readOk) =>
           ret # detect_image_type(NoMatchFile(file_path), file_path).value
    /\ (pc = "done" /\ op = "get_base64" /\ ~readOk) =>
           raised # DetectionError(file_path)

\* the 6-bit value of a character of the standard base64 alphabet
B64Value(c) ==
    IF c >= 65 /\ c <= 90 THEN c - 65
    ELSE IF c >= 97 /\ c <= 122 THEN c - 71
    ELSE IF c >= 48 /\ c <= 57 THEN c + 4
    ELSE IF c = 43 THEN 62
    ELSE 63

\* the bytes a standard base64 text stands for
RECURSIVE b64decode(_)
b64decode(t) ==
    IF Len(t) < 4 THEN <<>>
    ELSE LET a == B64Value(t[1])
             b == B64Value(t[2])
             c == B64Value(t[3])
             d == B64Value(t[4])
             rest == b64decode(SubSeq(t, 5, Len(t)))
         IN  IF t[3] = 61 THEN <<a * 4 + b \div 16>>
             ELSE IF t[4] = 61 THEN <<a * 4 + b \div 16, (b % 16) * 16 + c \div 4>>
             ELSE <<a * 4 + b \div 16, (b % 16) * 16 + c \div 4, (c % 4) * 64 + d>> \o rest

\* C7: get_base64_with_correct_type ends in exactly one of two ways: it
\* raises its detection error, which it does whenever the file cannot be read
\* or matches no rule, or it returns a media type that is the one of the
\* matching rule (one of the seven), with a base64 text that decodes to the
\* whole content of the file.
C7_PackagerFailsOrReturnsDetectedType ==
    (pc = "done" /\ op = "get_base64") =>
        /\ returned <=> raised = ""
        /\ raised # "" => raised = DetectionError(file_path)
        /\ (~CanOpen(fs, file_path) \/ FirstTableMatch(RuleOrder, Window) = None)
               => raised # "" /\ ~returned
        /\ returned =>
               /\ media_type \in MediaTypes
               /\ media_type = FirstTableMatch(RuleOrder, Window)
               /\ b64decode(base64_data) = fs[file_path].data
               /\ Len(base64_data) = 4 * ((Len(fs[file_path].data) + 2) \div 3)

C7_Witness ==
    /\ pc = "done" /\ op = "get_base64"
    /\ returned
    /\ media_type = "image/jpeg"
    /\ Len(fs[file_path].data) > HeaderLen
    /\ b64decode(base64_data) = fs[file_path].data

\* the first line main prints for a wrong argument count
UsageLine == "Usage: python fix_image_media_type.py <image_file>"

\* C8: a run of the command line always goes on until it has exited, with
\* code 0 or 1. It exits 0 exactly when it has one argument, naming a
\* readable file whose first 12 bytes match a rule, and then standard output
\* is the media type. With one argument and exit code 1 (file missing,
\* unreadable or unmatched) standard error has a diagnostic and standard
\* output is empty. With any other argument count it prints the usage and
\* exits 1.
C8_ExitCodes ==
    op = "main" =>
        /\ pc # "done" => exit_code = <<>> /\ ENABLED (Main_Args \/ Main_Exists \/ Main_Detect)
        /\ pc = "done" =>
               /\ exit_code \in {<<0>>, <<1>>}
               /\ exit_code = <<0>> <=>
                      /\ Len(args) = 1
                      /\ CanOpen(fs, args[1])
                      /\ FirstTableMatch(RuleOrder, Slice(fs[args[1]].data, 0, HeaderLen)) # None
               /\ exit_code = <<0>> =>
                      /\ stdout = <<FirstTableMatch(RuleOrder,
                                                    Slice(fs[args[1]].data, 0, HeaderLen))>>
                      /\ stderr = <<>>
               /\ (Len(args) = 1 /\ exit_code = <<1>>) => stderr # <<>> /\ stdout = <<>>
               /\ Len(args) # 1 => exit_code = <<1>> /\ stdout # <<>> /\ stdout[1] = UsageLine

C8_Witness ==
    /\ op = "main" /\ pc = "done"
    /\ Len(args) = 1
    /\ fs[args[1]].kind = "unreadable"
    /\ exit_code = <<1>>
    /\ stderr = <<"Error reading file", "Error: Could not detect image type">>

\* C10: whenever get_base64_with_correct_type returns, the media type is the
\* classification of the first 12 bytes of the content the base64 text
\* encodes, and the only error it raises is its detection error, also when
\* another process rewrites, truncates or removes the file between the two
\* reads.
C10_TypeMatchesEncodedContent ==
    (pc = "done" /\ op = "get_base64") =>
        /\ returned =>
               media_type = FirstTableMatch(RuleOrder, Slice(b64decode(base64_data), 0, HeaderLen))
        /\ raised # "" => raised = DetectionError(file_path)

=============================================================================
